---- MODULE Spec2Model ----
(***************************************************************************)
(* Model of the Index page component (src/pages/Index.tsx): the view-state *)
(* slots, the network info fetcher fetchIPInfo, the environment inspector  *)
(* getBrowserInfo, the privacy scorer calculatePrivacyScore and the        *)
(* refresh action refreshData.                                             *)
(*                                                                         *)
(* A JavaScript string is a sequence of one-character strings, so that     *)
(* includes, toLowerCase and the version patterns are computed and not     *)
(* assumed.  A JavaScript value is a record tagged with its typeof.        *)
(***************************************************************************)
EXTENDS Integers, Sequences, FiniteSets, TLC

(* Largest number of fetchIPInfo invocations that have not yet completed. *)
MaxInflight == 2

(***************************************************************************)
(* String literals of the source.                                          *)
(***************************************************************************)
sUnknown == <<"U","n","k","n","o","w","n">>
sGoogle == <<"g","o","o","g","l","e">>
sCloudflare == <<"c","l","o","u","d","f","l","a","r","e">>
sResidential == <<"r","e","s","i","d","e","n","t","i","a","l">>
sHttps == <<"h","t","t","p","s">>
sDemoIp == <<"1","9","2",".","1","6","8",".","1",".","1">>
sDemoCountry == <<"D","e","m","o"," ","C","o","u","n","t","r","y">>
sDemoRegion == <<"D","e","m","o"," ","R","e","g","i","o","n">>
sDemoCity == <<"D","e","m","o"," ","C","i","t","y">>
sDemoISP == <<"D","e","m","o"," ","I","S","P">>
sUTC == <<"U","T","C">>
sChrome == <<"C","h","r","o","m","e">>
sFirefox == <<"F","i","r","e","f","o","x">>
sSafari == <<"S","a","f","a","r","i">>
sEdge == <<"E","d","g","e">>
sChromeSlash == <<"C","h","r","o","m","e","/">>
sFirefoxSlash == <<"F","i","r","e","f","o","x","/">>
sVersionSlash == <<"V","e","r","s","i","o","n","/">>
sEdgeSlash == <<"E","d","g","e","/">>
sWindows == <<"W","i","n","d","o","w","s">>
sMac == <<"M","a","c">>
sLinux == <<"L","i","n","u","x">>
sAndroid == <<"A","n","d","r","o","i","d">>
siOS == <<"i","O","S">>
smacOS == <<"m","a","c","O","S">>

(***************************************************************************)
(* Inputs: provider names, page protocols, user agents and response field  *)
(* values the environment and the geolocation provider can supply.         *)
(***************************************************************************)
ispAcme == <<"A","C","M","E"," ","R","e","s","i","d","e","n","t","i","a","l"," ","B","r","o","a","d","b","a","n","d">>
ispCloudflare == <<"C","l","o","u","d","f","l","a","r","e",","," ","I","n","c",".">>
ispGoogle == <<"G","o","o","g","l","e"," ","L","L","C">>
ispGoogleRes == <<"G","O","O","G","L","E"," ","R","e","s","i","d","e","n","t","i","a","l">>
ispComcast == <<"C","o","m","c","a","s","t">>
ispUpperRes == <<"R","E","S","I","D","E","N","T","I","A","L"," ","N","E","T">>
ispCloudUpper == <<"C","L","O","U","D","F","L","A","R","E">>
protoHttps == <<"h","t","t","p","s",":">>
protoHttp == <<"h","t","t","p",":">>
protoFile == <<"f","i","l","e",":">>
uaChrome == <<"C","h","r","o","m","e","/","1","2","0"," ","S","a","f","a","r","i","/","5","3","7">>
uaFirefox == <<"L","i","n","u","x"," ","F","i","r","e","f","o","x","/","1","1","5">>
uaSafari == <<"M","a","c"," ","V","e","r","s","i","o","n","/","1","7"," ","S","a","f","a","r","i","/","6","0","5">>
uaOldEdge == <<"W","i","n","d","o","w","s"," ","E","d","g","e","/","1","8">>
uaEdgeChromium == <<"W","i","n","d","o","w","s"," ","C","h","r","o","m","e","/","6","4"," ","S","a","f","a","r","i","/","5","3","7"," ","E","d","g","e","/","1","7">>
uaCurl == <<"c","u","r","l","/","8">>
uaAndroid == <<"L","i","n","u","x"," ","A","n","d","r","o","i","d"," ","C","h","r","o","m","e","/","9","9">>
uaBareSafari == <<"i","O","S"," ","S","a","f","a","r","i">>
uaLower == <<"c","h","r","o","m","e","/","9"," ","e","d","g","e">>
uaChromeLate == <<"C","h","r","o","m","e"," ","C","h","r","o","m","e","/","7","x">>
uaFirefoxEdge == <<"F","i","r","e","f","o","x","/","3"," ","E","d","g","e","/","1","2">>
uaBareEdge == <<"A","n","d","r","o","i","d"," ","E","d","g","e">>
uaSafariEdge == <<"E","d","g","e","/","1","5"," ","S","a","f","a","r","i">>
ipA == <<"8",".","8",".","8",".","8">>
cUS == <<"U","S">>
rCA == <<"C","A">>
cityMV == <<"M","V">>
tzLA == <<"L","A">>
sTwelve == <<"1","2">>

(***************************************************************************)
(* JavaScript string primitives.                                           *)
(***************************************************************************)
UpperChars == <<"A","B","C","D","E","F","G","H","I","J","K","L","M","N","O","P","Q","R","S","T","U","V","W","X","Y","Z">>
LowerChars == <<"a","b","c","d","e","f","g","h","i","j","k","l","m","n","o","p","q","r","s","t","u","v","w","x","y","z">>
DigitChars == {"0","1","2","3","4","5","6","7","8","9"}

toLowerChar(c) ==
  IF \E k \in 1..Len(UpperChars) : UpperChars[k] = c
  THEN LowerChars[CHOOSE k \in 1..Len(UpperChars) : UpperChars[k] = c]
  ELSE c

toLowerCase(s) == [k \in 1..Len(s) |-> toLowerChar(s[k])]

includes(s, needle) ==
  \E k \in 0..(Len(s) - Len(needle)) : SubSeq(s, k + 1, k + Len(needle)) = needle

(***************************************************************************)
(* JavaScript values, tagged with their typeof.                            *)
(***************************************************************************)
Undef == [t |-> "undefined"]
Null == [t |-> "null"]
Str(s) == [t |-> "string", v |-> s]
Num(n) == [t |-> "number", v |-> n]
Bool(b) == [t |-> "boolean", v |-> b]

Truthy(x) ==
  CASE x.t = "undefined" -> FALSE
    [] x.t = "null" -> FALSE
    [] x.t = "string" -> x.v # <<>>
    [] x.t = "number" -> x.v # 0
    [] x.t = "boolean" -> x.v

(* a || b *)
OrElse(a, b) == IF Truthy(a) THEN a ELSE b

(* userAgent.match(/<prefix>(\d+)/)?.[1] : the digits captured by the      *)
(* leftmost match, undefined when the pattern does not match.              *)
matchDigits(s, prefix) ==
  LET n == Len(prefix)
      starts == {p \in 1..Len(s) : /\ p + n <= Len(s)
                                   /\ SubSeq(s, p, p + n - 1) = prefix
                                   /\ s[p + n] \in DigitChars}
  IN IF starts = {} THEN Undef
     ELSE LET p == CHOOSE q \in starts : \A r \in starts : q <= r
              ends == {e \in (p + n)..Len(s) : \A m \in (p + n)..e : s[m] \in DigitChars}
              e == CHOOSE f \in ends : \A g \in ends : g <= f
          IN Str(SubSeq(s, p + n, e))

(***************************************************************************)
(* fetchIPInfo: the mapping of the provider response and the fallback.     *)
(***************************************************************************)
(* The value response.json() resolves with: a JSON object (its eight       *)
(* properties of interest, undefined when absent), JSON null, or a JSON    *)
(* number, string or boolean.  A body that is not JSON makes it reject.    *)
FieldNames == {"ip", "country_name", "region", "city", "org", "timezone", "latitude", "longitude"}
JObject(f) == [kind |-> "object", fields |-> f]
JNull == [kind |-> "null"]
JPrimitive == [kind |-> "primitive"]
NotJSON == [kind |-> "nonjson"]

(* data.<name> : reading a property of null throws, of a primitive gives   *)
(* undefined.                                                              *)
prop(data, name) == IF data.kind = "object" THEN data.fields[name] ELSE Undef

(* a ?? b *)
Nullish(a, b) == IF a.t \in {"undefined", "null"} THEN b ELSE a

(* Variant: the fields default with ?? instead of ||. *)
formattedDataOf_nullish(data) ==
  [ip |-> Nullish(prop(data, "ip"), Str(sUnknown)),
   country |-> Nullish(prop(data, "country_name"), Str(sUnknown)),
   region |-> Nullish(prop(data, "region"), Str(sUnknown)),
   city |-> Nullish(prop(data, "city"), Str(sUnknown)),
   isp |-> Nullish(prop(data, "org"), Str(sUnknown)),
   timezone |-> Nullish(prop(data, "timezone"), Str(sUnknown)),
   lat |-> Nullish(prop(data, "latitude"), Num(0)),
   lon |-> Nullish(prop(data, "longitude"), Num(0))]

formattedDataOf(data) ==
  [ip |-> OrElse(prop(data, "ip"), Str(sUnknown)),
   country |-> OrElse(prop(data, "country_name"), Str(sUnknown)),
   region |-> OrElse(prop(data, "region"), Str(sUnknown)),
   city |-> OrElse(prop(data, "city"), Str(sUnknown)),
   isp |-> OrElse(prop(data, "org"), Str(sUnknown)),
   timezone |-> OrElse(prop(data, "timezone"), Str(sUnknown)),
   lat |-> OrElse(prop(data, "latitude"), Num(0)),
   lon |-> OrElse(prop(data, "longitude"), Num(0))]

fallbackData ==
  [ip |-> Str(sDemoIp),
   country |-> Str(sDemoCountry),
   region |-> Str(sDemoRegion),
   city |-> Str(sDemoCity),
   isp |-> Str(sDemoISP),
   timezone |-> Str(sUTC),
   lat |-> Num(0),
   lon |-> Num(0)]

(***************************************************************************)
(* getBrowserInfo.                                                         *)
(***************************************************************************)
(* Variant: Safari is tested before Chrome. *)
detectBrowser_safariFirst(userAgent) ==
  IF includes(userAgent, sSafari)
  THEN [browser |-> Str(sSafari),
        version |-> OrElse(matchDigits(userAgent, sVersionSlash), Str(sUnknown))]
  ELSE IF includes(userAgent, sChrome)
  THEN [browser |-> Str(sChrome),
        version |-> OrElse(matchDigits(userAgent, sChromeSlash), Str(sUnknown))]
  ELSE IF includes(userAgent, sFirefox)
  THEN [browser |-> Str(sFirefox),
        version |-> OrElse(matchDigits(userAgent, sFirefoxSlash), Str(sUnknown))]
  ELSE IF includes(userAgent, sEdge)
  THEN [browser |-> Str(sEdge),
        version |-> OrElse(matchDigits(userAgent, sEdgeSlash), Str(sUnknown))]
  ELSE [browser |-> Str(sUnknown), version |-> Str(sUnknown)]

detectBrowser(userAgent) ==
  IF includes(userAgent, sChrome)
  THEN [browser |-> Str(sChrome),
        version |-> OrElse(matchDigits(userAgent, sChromeSlash), Str(sUnknown))]
  ELSE IF includes(userAgent, sFirefox)
  THEN [browser |-> Str(sFirefox),
        version |-> OrElse(matchDigits(userAgent, sFirefoxSlash), Str(sUnknown))]
  ELSE IF includes(userAgent, sSafari)
  THEN [browser |-> Str(sSafari),
        version |-> OrElse(matchDigits(userAgent, sVersionSlash), Str(sUnknown))]
  ELSE IF includes(userAgent, sEdge)
  THEN [browser |-> Str(sEdge),
        version |-> OrElse(matchDigits(userAgent, sEdgeSlash), Str(sUnknown))]
  ELSE [browser |-> Str(sUnknown), version |-> Str(sUnknown)]

(* Variant: Android is tested before Linux. *)
detectOS_androidFirst(userAgent) ==
  IF includes(userAgent, sWindows) THEN Str(sWindows)
  ELSE IF includes(userAgent, sMac) THEN Str(smacOS)
  ELSE IF includes(userAgent, sAndroid) THEN Str(sAndroid)
  ELSE IF includes(userAgent, sLinux) THEN Str(sLinux)
  ELSE IF includes(userAgent, siOS) THEN Str(siOS)
  ELSE Str(sUnknown)

detectOS(userAgent) ==
  IF includes(userAgent, sWindows) THEN Str(sWindows)
  ELSE IF includes(userAgent, sMac) THEN Str(smacOS)
  ELSE IF includes(userAgent, sLinux) THEN Str(sLinux)
  ELSE IF includes(userAgent, sAndroid) THEN Str(sAndroid)
  ELSE IF includes(userAgent, siOS) THEN Str(siOS)
  ELSE Str(sUnknown)

(* The record getBrowserInfo hands to setBrowserInfo.  platform, language,  *)
(* javaEnabled, screen and viewport are copied from the environment and    *)
(* play no part in any other operation; they are left out.                 *)
browserInfoOf(e) ==
  [browser |-> detectBrowser(e.userAgent).browser,
   version |-> detectBrowser(e.userAgent).version,
   os |-> detectOS(e.userAgent),
   userAgent |-> Str(e.userAgent),
   cookiesEnabled |-> Bool(e.cookieEnabled)]

(***************************************************************************)
(* calculatePrivacyScore(ipData) in environment e.  toLowerCase is a       *)
(* method of strings only: on any other isp value the call throws a        *)
(* TypeError before either setter runs.                                    *)
(***************************************************************************)
Max(a, b) == IF a >= b THEN a ELSE b

(* Variant: the three environment conditions form one else-if chain. *)
envDeductions_exclusive(e) ==
  IF ~includes(e.protocol, sHttps) THEN 20
  ELSE IF e.cookieEnabled THEN 10
  ELSE IF e.geolocation THEN 15
  ELSE 0

(* Variant: insecure transport costs 30 points. *)
envDeductions_heavier(e) ==
  (IF ~includes(e.protocol, sHttps) THEN 30 ELSE 0)
  + (IF e.cookieEnabled THEN 10 ELSE 0)
  + (IF e.geolocation THEN 15 ELSE 0)

envDeductions(e) ==
  (IF ~includes(e.protocol, sHttps) THEN 20 ELSE 0)
  + (IF e.cookieEnabled THEN 10 ELSE 0)
  + (IF e.geolocation THEN 15 ELSE 0)

(* Variant: a trusted provider earns five points instead of losing them. *)
calculatePrivacyScore_bonus(e, ipData) ==
  IF ipData.isp.t # "string"
  THEN [threw |-> TRUE]
  ELSE LET isp == toLowerCase(ipData.isp.v)
           score == 100 - envDeductions(e)
       IN IF includes(isp, sGoogle) \/ includes(isp, sCloudflare)
          THEN [threw |-> FALSE, level |-> "high", score |-> Max(score + 5, 0)]
          ELSE IF includes(isp, sResidential)
          THEN [threw |-> FALSE, level |-> "low", score |-> Max(score - 15, 0)]
          ELSE [threw |-> FALSE, level |-> "medium", score |-> Max(score, 0)]

(* Variant: the provider name is searched without lower-casing it. *)
calculatePrivacyScore_caseSensitive(e, ipData) ==
  IF ipData.isp.t # "string"
  THEN [threw |-> TRUE]
  ELSE LET isp == ipData.isp.v
           score == 100 - envDeductions(e)
       IN IF includes(isp, sGoogle) \/ includes(isp, sCloudflare)
          THEN [threw |-> FALSE, level |-> "high", score |-> Max(score - 5, 0)]
          ELSE IF includes(isp, sResidential)
          THEN [threw |-> FALSE, level |-> "low", score |-> Max(score - 15, 0)]
          ELSE [threw |-> FALSE, level |-> "medium", score |-> Max(score, 0)]

(* Variant: "residential" is tested before "google" and "cloudflare". *)
calculatePrivacyScore_residentialFirst(e, ipData) ==
  IF ipData.isp.t # "string"
  THEN [threw |-> TRUE]
  ELSE LET isp == toLowerCase(ipData.isp.v)
           score == 100 - envDeductions(e)
       IN IF includes(isp, sResidential)
          THEN [threw |-> FALSE, level |-> "low", score |-> Max(score - 15, 0)]
          ELSE IF includes(isp, sGoogle) \/ includes(isp, sCloudflare)
          THEN [threw |-> FALSE, level |-> "high", score |-> Max(score - 5, 0)]
          ELSE [threw |-> FALSE, level |-> "medium", score |-> Max(score, 0)]

calculatePrivacyScore(e, ipData) ==
  IF ipData.isp.t # "string"
  THEN [threw |-> TRUE]
  ELSE LET isp == toLowerCase(ipData.isp.v)
           score == 100 - envDeductions(e)
       IN IF includes(isp, sGoogle) \/ includes(isp, sCloudflare)
          THEN [threw |-> FALSE, level |-> "high", score |-> Max(score - 5, 0)]
          ELSE IF includes(isp, sResidential)
          THEN [threw |-> FALSE, level |-> "low", score |-> Max(score - 15, 0)]
          ELSE [threw |-> FALSE, level |-> "medium", score |-> Max(score, 0)]

(***************************************************************************)
(* Inputs of the state machine.                                            *)
(***************************************************************************)
Fields(ip, country, region, city, org, tz, lat, lon) ==
  [ip |-> ip, country_name |-> country, region |-> region, city |-> city,
   org |-> org, timezone |-> tz, latitude |-> lat, longitude |-> lon]

NoFields == Fields(Undef, Undef, Undef, Undef, Undef, Undef, Undef, Undef)

Response(ok, body) == [ok |-> ok, body |-> body]

respGoogle ==
  Response(TRUE, JObject(Fields(Str(ipA), Str(cUS), Str(rCA), Str(cityMV),
                                Str(ispGoogle), Str(tzLA), Num(37), Num(-122))))
respResidential ==
  Response(TRUE, JObject(Fields(Str(ipA), Str(cUS), Null, Str(<<>>),
                                Str(ispAcme), Undef, Num(0), Undef)))
respOrgNumber ==
  Response(TRUE, JObject(Fields(Str(ipA), Str(cUS), Str(rCA), Str(cityMV),
                                Num(42), Str(tzLA), Num(37), Num(-122))))
respNullBody == Response(TRUE, JNull)
respGatewayHtml == Response(FALSE, NotJSON)
(* HTTP 429 with the body {"error": true, "reason": "RateLimited"} *)
respRateLimited == Response(FALSE, JObject(NoFields))

Responses ==
  {respGoogle, respResidential, respOrgNumber, respNullBody, respGatewayHtml,
   respRateLimited}

Env(protocol, cookieEnabled, geolocation, userAgent) ==
  [protocol |-> protocol, cookieEnabled |-> cookieEnabled,
   geolocation |-> geolocation, userAgent |-> userAgent]

Protocols == {protoHttps, protoHttp, protoFile}

UserAgents ==
  {uaChrome, uaFirefox, uaSafari, uaOldEdge, uaEdgeChromium, uaCurl, uaAndroid,
   uaBareSafari, uaLower, uaChromeLate, uaFirefoxEdge, uaBareEdge, uaSafariEdge}

ProviderNames ==
  {ispAcme, ispCloudflare, ispGoogle, ispGoogleRes, ispComcast, ispUpperRes,
   ispCloudUpper, sDemoISP}

(* Environments of the page as a whole. *)
Envs ==
  {Env(p, c, g, uaChrome) : p \in {protoHttps, protoHttp}, c \in BOOLEAN, g \in BOOLEAN}
  \cup {Env(protoFile, TRUE, FALSE, uaFirefox), Env(protoHttps, FALSE, TRUE, uaCurl)}

(* Every combination of the flags the scorer reads, and every provider     *)
(* name, for the scorer taken alone.                                       *)
ScorerEnvs == {Env(p, c, g, uaChrome) : p \in Protocols, c \in BOOLEAN, g \in BOOLEAN}

ScorerResponses ==
  {Response(TRUE, JObject(Fields(Str(ipA), Str(cUS), Str(rCA), Str(cityMV),
                                 Str(n), Str(tzLA), Num(37), Num(-122)))) :
     n \in ProviderNames}

(* Every combination of absent, falsy and truthy values of the eight       *)
(* response fields, for the mapping taken alone.                           *)
MapperEnvs == {Env(protoHttps, TRUE, TRUE, uaChrome)}

MapperResponses ==
  {Response(TRUE, JObject(Fields(ip, country, region, city, org, tz, lat, lon))) :
     ip \in {Undef, Null, Str(ipA)},
     country \in {Undef, Str(<<>>), Str(cUS)},
     region \in {Null, Bool(FALSE), Str(rCA)},
     city \in {Undef, Num(0), Str(cityMV)},
     org \in {Undef, Str(<<>>), Str(ispGoogle), Num(42)},
     tz \in {Undef, Str(<<>>), Bool(TRUE)},
     lat \in {Undef, Num(0), Num(37)},
     lon \in {Null, Num(-122), Str(sTwelve)}}
  \cup {Response(TRUE, JPrimitive)}

(* Every user agent, for the environment inspector taken alone. *)
InspectorEnvs == {Env(protoHttps, TRUE, TRUE, ua) : ua \in UserAgents}

(***************************************************************************)
(* State.                                                                  *)
(*  ipInfo, browserInfo, loading, privacyScore, securityLevel : the five   *)
(*    useState slots of Index.                                             *)
(*  env : what location and navigator report.                              *)
(*  fetches : the invocations of fetchIPInfo that have not completed, in   *)
(*    the order they were started, each with its position and locals.      *)
(*  running : index in fetches of the invocation whose continuation is     *)
(*    executing (JavaScript runs it to completion), 0 when none is.        *)
(*  unhandled : an exception left fetchIPInfo (its promise rejected).      *)
(***************************************************************************)
VARIABLES ipInfo, browserInfo, loading, privacyScore, securityLevel, env,
          fetches, running, unhandled

vars == <<ipInfo, browserInfo, loading, privacyScore, securityLevel, env,
          fetches, running, unhandled>>

view == <<ipInfo, browserInfo, loading, privacyScore, securityLevel>>

NoResponse == Response(FALSE, [kind |-> "none"])

(* fetchIPInfo() up to its first await: the request is issued. *)
newFetch ==
  [pc |-> "fetch", response |-> NoResponse, formattedData |-> Null,
   caught |-> FALSE, threw |-> FALSE]

RemoveAt(s, i) == [k \in 1..(Len(s) - 1) |-> IF k < i THEN s[k] ELSE s[k + 1]]

InitWith(E) ==
  /\ ipInfo = Null
  /\ browserInfo = Null
  /\ loading = TRUE
  /\ privacyScore = 0
  /\ securityLevel = "medium"
  /\ env \in E
  /\ fetches = <<>>
  /\ running = 0
  /\ unhandled = FALSE

Init == InitWith(Envs)

(* useEffect(() => { fetchIPInfo(); getBrowserInfo(); }, []) *)
PageLoad ==
  /\ browserInfo = Null
  /\ running = 0
  /\ fetches' = Append(fetches, newFetch)
  /\ browserInfo' = browserInfoOf(env)
  /\ UNCHANGED <<ipInfo, loading, privacyScore, securityLevel, env, running, unhandled>>

(* Variant: refresh clears the previous results while the new ones load.  *)
refreshData_clears ==
  /\ browserInfo # Null
  /\ running = 0
  /\ Len(fetches) < MaxInflight
  /\ loading' = TRUE
  /\ ipInfo' = Null
  /\ privacyScore' = 0
  /\ fetches' = Append(fetches, newFetch)
  /\ browserInfo' = browserInfoOf(env)
  /\ UNCHANGED <<securityLevel, env, running, unhandled>>

(* refreshData(), invoked whenever the page is mounted and idle. *)
refreshData ==
  /\ browserInfo # Null
  /\ running = 0
  /\ Len(fetches) < MaxInflight
  /\ loading' = TRUE
  /\ fetches' = Append(fetches, newFetch)
  /\ browserInfo' = browserInfoOf(env)
  /\ UNCHANGED <<ipInfo, privacyScore, securityLevel, env, running, unhandled>>

(* Variant: the button is rendered in the loading view as well. *)
RefreshClick_always == refreshData

(* refreshData() invoked by the Refresh Data button, which is rendered     *)
(* only when loading is false.                                             *)
RefreshClick ==
  /\ loading = FALSE
  /\ refreshData

(* await fetch(...) resolves with a response of any status. *)
FetchResolve(i, R) ==
  /\ running = 0
  /\ fetches[i].pc = "fetch"
  /\ \E r \in R : fetches' = [fetches EXCEPT ![i].pc = "json", ![i].response = r]
  /\ UNCHANGED <<view, env, running, unhandled>>

(* await fetch(...) rejects: control enters the catch block. *)
FetchReject(i) ==
  /\ running = 0
  /\ fetches[i].pc = "fetch"
  /\ fetches' = [fetches EXCEPT ![i].pc = "catch", ![i].caught = TRUE]
  /\ running' = i
  /\ UNCHANGED <<view, env, unhandled>>

(* Variant: the two awaits sit outside the try block, so a body that is   *)
(* not JSON, or null, skips the catch block.                               *)
JsonSettle_noCatch(i) ==
  /\ running = 0
  /\ fetches[i].pc = "json"
  /\ LET data == fetches[i].response.body
     IN IF data.kind \in {"nonjson", "null"}
        THEN fetches' = [fetches EXCEPT ![i].pc = "finally"]
        ELSE fetches' = [fetches EXCEPT ![i].pc = "setIpInfo",
                                         ![i].formattedData = formattedDataOf(data)]
  /\ running' = i
  /\ UNCHANGED <<view, env, unhandled>>

(* await response.json() settles; on success formattedData is built,      *)
(* which throws when data is null.                                         *)
JsonSettle(i) ==
  /\ running = 0
  /\ fetches[i].pc = "json"
  /\ LET data == fetches[i].response.body
     IN IF data.kind \in {"nonjson", "null"}
        THEN fetches' = [fetches EXCEPT ![i].pc = "catch", ![i].caught = TRUE]
        ELSE fetches' = [fetches EXCEPT ![i].pc = "setIpInfo",
                                         ![i].formattedData = formattedDataOf(data)]
  /\ running' = i
  /\ UNCHANGED <<view, env, unhandled>>

(* Variant: a response is applied only when its request is the most       *)
(* recently started one (stale completions are dropped).                   *)
TrySetIpInfo_latestOnly(i) ==
  /\ running = i
  /\ fetches[i].pc = "setIpInfo"
  /\ ipInfo' = IF i = Len(fetches) THEN fetches[i].formattedData ELSE ipInfo
  /\ fetches' = [fetches EXCEPT ![i].pc = "calculate"]
  /\ UNCHANGED <<browserInfo, loading, privacyScore, securityLevel, env, running, unhandled>>

(* Variant: the scorer is called before setIpInfo. *)
TrySetIpInfo_scoreFirst(i) ==
  /\ running = i
  /\ fetches[i].pc = "setIpInfo"
  /\ LET r == calculatePrivacyScore(env, fetches[i].formattedData)
     IN IF r.threw
        THEN UNCHANGED <<privacyScore, securityLevel>>
        ELSE securityLevel' = r.level /\ privacyScore' = r.score
  /\ fetches' = [fetches EXCEPT ![i].pc = "calculate"]
  /\ UNCHANGED <<ipInfo, browserInfo, loading, env, running, unhandled>>

(* setIpInfo(formattedData) *)
TrySetIpInfo(i) ==
  /\ running = i
  /\ fetches[i].pc = "setIpInfo"
  /\ ipInfo' = fetches[i].formattedData
  /\ fetches' = [fetches EXCEPT ![i].pc = "calculate"]
  /\ UNCHANGED <<browserInfo, loading, privacyScore, securityLevel, env, running, unhandled>>

(* calculatePrivacyScore(formattedData) inside the try block *)
TryCalculate(i) ==
  /\ running = i
  /\ fetches[i].pc = "calculate"
  /\ LET r == calculatePrivacyScore(env, fetches[i].formattedData)
     IN IF r.threw
        THEN /\ fetches' = [fetches EXCEPT ![i].pc = "catch", ![i].caught = TRUE]
             /\ UNCHANGED <<privacyScore, securityLevel>>
        ELSE /\ fetches' = [fetches EXCEPT ![i].pc = "finally"]
             /\ securityLevel' = r.level
             /\ privacyScore' = r.score
  /\ UNCHANGED <<ipInfo, browserInfo, loading, env, running, unhandled>>

(* Variant: the catch block forgets setIpInfo(fallbackData). *)
CatchSetIpInfo_stale(i) ==
  /\ running = i
  /\ fetches[i].pc = "catch"
  /\ fetches' = [fetches EXCEPT ![i].pc = "catchCalculate"]
  /\ UNCHANGED <<ipInfo, browserInfo, loading, privacyScore, securityLevel, env, running, unhandled>>

(* catch: console.error(...); setIpInfo(fallbackData) *)
CatchSetIpInfo(i) ==
  /\ running = i
  /\ fetches[i].pc = "catch"
  /\ ipInfo' = fallbackData
  /\ fetches' = [fetches EXCEPT ![i].pc = "catchCalculate"]
  /\ UNCHANGED <<browserInfo, loading, privacyScore, securityLevel, env, running, unhandled>>

(* Variant: the scorer call in the catch block leaves the level alone.    *)
CatchCalculate_scoreOnly(i) ==
  /\ running = i
  /\ fetches[i].pc = "catchCalculate"
  /\ LET r == calculatePrivacyScore(env, fallbackData)
     IN IF r.threw
        THEN /\ fetches' = [fetches EXCEPT ![i].pc = "finally", ![i].threw = TRUE]
             /\ UNCHANGED privacyScore
        ELSE /\ fetches' = [fetches EXCEPT ![i].pc = "finally"]
             /\ privacyScore' = r.score
  /\ UNCHANGED <<ipInfo, browserInfo, loading, securityLevel, env, running, unhandled>>

(* catch: calculatePrivacyScore(fallbackData); an exception here is not    *)
(* caught and leaves fetchIPInfo after the finally block.                  *)
CatchCalculate(i) ==
  /\ running = i
  /\ fetches[i].pc = "catchCalculate"
  /\ LET r == calculatePrivacyScore(env, fallbackData)
     IN IF r.threw
        THEN /\ fetches' = [fetches EXCEPT ![i].pc = "finally", ![i].threw = TRUE]
             /\ UNCHANGED <<privacyScore, securityLevel>>
        ELSE /\ fetches' = [fetches EXCEPT ![i].pc = "finally"]
             /\ securityLevel' = r.level
             /\ privacyScore' = r.score
  /\ UNCHANGED <<ipInfo, browserInfo, loading, env, running, unhandled>>

(* Variant: setLoading(false) ends the try block instead of sitting in a  *)
(* finally block, so the failure path leaves loading as it was.            *)
Finally_successOnly(i) ==
  /\ running = i
  /\ fetches[i].pc = "finally"
  /\ loading' = (IF fetches[i].caught THEN loading ELSE FALSE)
  /\ unhandled' = (unhandled \/ fetches[i].threw)
  /\ fetches' = RemoveAt(fetches, i)
  /\ running' = 0
  /\ UNCHANGED <<ipInfo, browserInfo, privacyScore, securityLevel, env>>

(* finally: setLoading(false); the invocation completes. *)
Finally(i) ==
  /\ running = i
  /\ fetches[i].pc = "finally"
  /\ loading' = FALSE
  /\ unhandled' = (unhandled \/ fetches[i].threw)
  /\ fetches' = RemoveAt(fetches, i)
  /\ running' = 0
  /\ UNCHANGED <<ipInfo, browserInfo, privacyScore, securityLevel, env>>

Settle(R) ==
  \E i \in 1..Len(fetches) :
    \/ FetchResolve(i, R)
    \/ FetchReject(i)
    \/ JsonSettle(i)
    \/ TrySetIpInfo(i)
    \/ TryCalculate(i)
    \/ CatchSetIpInfo(i)
    \/ CatchCalculate(i)
    \/ Finally(i)

Next == PageLoad \/ refreshData \/ Settle(Responses)

Spec == Init /\ [][Next]_vars

(* The page when the effect runs after mount, every issued request is     *)
(* eventually answered or fails, and every continuation is eventually run  *)
(* by the event loop.  Progress does not depend on what the environment    *)
(* reports, so one success, one scorer exception and one failure in two    *)
(* environments are followed.                                              *)
FairEnvs == {Env(protoHttps, FALSE, FALSE, uaChrome), Env(protoHttp, TRUE, TRUE, uaChrome)}
FairResponses == {respResidential, respOrgNumber, respGatewayHtml}

InitFair == InitWith(FairEnvs)
NextFair == PageLoad \/ refreshData \/ Settle(FairResponses)
SpecFair ==
  /\ InitFair
  /\ [][NextFair]_vars
  /\ WF_vars(PageLoad)
  /\ WF_vars(Settle(FairResponses))

(* The page driven through what it renders: refresh only by the button. *)
NextUI == PageLoad \/ RefreshClick \/ Settle(Responses)

SpecUI == Init /\ [][NextUI]_vars

(* One gather cycle (page load and its settlement) over the whole input    *)
(* range of the scorer, of the mapping and of the inspector.               *)
InitScorer == InitWith(ScorerEnvs)
NextScorer == PageLoad \/ Settle(ScorerResponses)
SpecScorer == InitScorer /\ [][NextScorer]_vars

InitMapper == InitWith(MapperEnvs)
NextMapper == PageLoad \/ Settle(MapperResponses)
SpecMapper == InitMapper /\ [][NextMapper]_vars

InitInspector == InitWith(InspectorEnvs)
NextInspector == PageLoad \/ Settle(Responses)
SpecInspector == InitInspector /\ [][NextInspector]_vars

TypeOK ==
  /\ loading \in BOOLEAN
  /\ privacyScore \in Int
  /\ securityLevel \in {"low", "medium", "high"}
  /\ running \in 0..Len(fetches)
  /\ Len(fetches) <= MaxInflight

(***************************************************************************)
(* Properties.                                                             *)
(***************************************************************************)

(* The provider name the scorer of invocation f was last called on. *)
scoredName(f) == IF f.caught THEN sDemoISP ELSE f.formattedData.isp.v

(* C1: after any sequence of page load, refresh and fetch settlements the  *)
(* privacy score in view state is an integer between 0 and 100.            *)
C1_ScoreInRange == privacyScore \in 0..100

C1_Witness == ipInfo # Null /\ running = 0 /\ loading = FALSE /\ privacyScore = 40

(* C2: the score the scorer writes is 100 - 20*[transport not secure]      *)
(* - 10*[cookies enabled] - 15*[geolocation present] - P, with P = 5 for a *)
(* provider name containing "google" or "cloudflare" in lower case, else   *)
(* 15 for one containing "residential", else 0; the two worked examples    *)
(* give 40/low and 95/high.                                                *)
C2_P(name) ==
  LET l == toLowerCase(name)
  IN IF includes(l, sGoogle) \/ includes(l, sCloudflare) THEN 5
     ELSE IF includes(l, sResidential) THEN 15 ELSE 0

C2_Expected(e, name) ==
  100 - 20 * (IF e.protocol = protoHttps THEN 0 ELSE 1)
      - 10 * (IF e.cookieEnabled THEN 1 ELSE 0)
      - 15 * (IF e.geolocation THEN 1 ELSE 0)
      - C2_P(name)

C2_ScoreFormula ==
  \A i \in 1..Len(fetches) :
    fetches[i].pc = "finally" =>
      LET name == scoredName(fetches[i])
      IN /\ privacyScore = C2_Expected(env, name)
         /\ (/\ env.protocol = protoHttp /\ env.cookieEnabled /\ env.geolocation
             /\ name = ispAcme)
            => (privacyScore = 40 /\ securityLevel = "low")
         /\ (/\ env.protocol = protoHttps /\ ~env.cookieEnabled /\ ~env.geolocation
             /\ name = ispCloudflare)
            => (privacyScore = 95 /\ securityLevel = "high")

C2_Witness ==
  \E i \in 1..Len(fetches) :
    /\ fetches[i].pc = "finally"
    /\ ~fetches[i].caught
    /\ fetches[i].formattedData.isp = Str(ispCloudflare)
    /\ env.protocol = protoHttps /\ ~env.cookieEnabled /\ ~env.geolocation
    /\ privacyScore = 95

(* C3: the level the scorer writes depends on the provider name alone:     *)
(* "google" or "cloudflare" (any case) gives high, else "residential"      *)
(* gives low, else medium; a name with "google" and "residential" is high. *)
C3_Level(name) ==
  LET l == toLowerCase(name)
  IN IF includes(l, sGoogle) \/ includes(l, sCloudflare) THEN "high"
     ELSE IF includes(l, sResidential) THEN "low" ELSE "medium"

C3_LevelByProvider ==
  \A i \in 1..Len(fetches) :
    fetches[i].pc = "finally" =>
      LET name == scoredName(fetches[i])
      IN /\ securityLevel = C3_Level(name)
         /\ (includes(toLowerCase(name), sGoogle) /\ includes(toLowerCase(name), sResidential))
            => securityLevel = "high"

C3_Witness ==
  \E i \in 1..Len(fetches) :
    /\ fetches[i].pc = "finally"
    /\ ~fetches[i].caught
    /\ fetches[i].formattedData.isp = Str(ispGoogleRes)
    /\ securityLevel = "high"
    /\ env.protocol = protoFile /\ env.cookieEnabled /\ env.geolocation

(* C4: when the request is rejected or the body is not JSON, the stored    *)
(* network record is the fallback literal, score and level are those of    *)
(* the fallback record, and no exception leaves fetchIPInfo.               *)
C4_FallbackLiteral ==
  [ip |-> Str(sDemoIp), country |-> Str(sDemoCountry), region |-> Str(sDemoRegion),
   city |-> Str(sDemoCity), isp |-> Str(sDemoISP), timezone |-> Str(sUTC),
   lat |-> Num(0), lon |-> Num(0)]

C4_Failed(f) == f.response = NoResponse \/ f.response.body.kind = "nonjson"

C4_FailureStoresFallback ==
  /\ unhandled = FALSE
  /\ \A i \in 1..Len(fetches) :
       (fetches[i].pc = "finally" /\ C4_Failed(fetches[i])) =>
         /\ ipInfo = C4_FallbackLiteral
         /\ securityLevel = "medium"
         /\ privacyScore = C2_Expected(env, sDemoISP)
         /\ ~fetches[i].threw

C4_Witness ==
  \E i \in 1..Len(fetches) :
    /\ fetches[i].pc = "finally"
    /\ fetches[i].response = NoResponse
    /\ ipInfo = C4_FallbackLiteral

(* C5: a response with a non-success HTTP status, whatever its body, makes *)
(* fetchIPInfo store the fallback record.                                  *)
C5_NonSuccessStoresFallback ==
  \A i \in 1..Len(fetches) :
    (/\ fetches[i].pc = "finally"
     /\ fetches[i].response # NoResponse
     /\ ~fetches[i].response.ok) => ipInfo = C4_FallbackLiteral

(* C6: on a JSON object response each field is mapped on its own: absent   *)
(* or falsy gives "Unknown" (0 for the coordinates), a truthy value is     *)
(* stored unchanged; no stored field is undefined or null.                 *)
C6_Falsy(x) == x \in {Undef, Null, Str(<<>>), Num(0), Bool(FALSE)}

C6_FieldMap ==
  {<<"ip", "ip", Str(sUnknown)>>, <<"country_name", "country", Str(sUnknown)>>,
   <<"region", "region", Str(sUnknown)>>, <<"city", "city", Str(sUnknown)>>,
   <<"org", "isp", Str(sUnknown)>>, <<"timezone", "timezone", Str(sUnknown)>>,
   <<"latitude", "lat", Num(0)>>, <<"longitude", "lon", Num(0)>>}

C6_FieldwiseMapping ==
  /\ ipInfo # Null => \A k \in DOMAIN ipInfo : ipInfo[k].t \notin {"undefined", "null"}
  /\ \A i \in 1..Len(fetches) :
       (fetches[i].pc = "calculate" /\ fetches[i].response.body.kind = "object") =>
         \A m \in C6_FieldMap :
           LET given == fetches[i].response.body.fields[m[1]]
           IN ipInfo[m[2]] = IF C6_Falsy(given) THEN m[3] ELSE given

C6_Witness ==
  \E i \in 1..Len(fetches) :
    /\ fetches[i].pc = "calculate"
    /\ fetches[i].response.body.kind = "object"
    /\ fetches[i].response.body.fields["ip"] = Undef
    /\ fetches[i].response.body.fields["country_name"] = Str(<<>>)
    /\ fetches[i].response.body.fields["city"] = Str(cityMV)
    /\ fetches[i].response.body.fields["latitude"] = Num(37)
    /\ ipInfo.ip = Str(sUnknown)
    /\ ipInfo.country = Str(sUnknown)
    /\ ipInfo.city = Str(cityMV)
    /\ ipInfo.lat = Num(37)

C8_Record(f) ==
  IF \/ f.response = NoResponse
     \/ f.response.body.kind \in {"nonjson", "null"}
     \/ formattedDataOf(f.response.body).isp.t # "string"
  THEN C4_FallbackLiteral
  ELSE formattedDataOf(f.response.body)

C8_LastCompletedWins ==
  [][\A i \in 1..Len(fetches) :
       (running = i /\ fetches[i].pc = "finally" /\ running' = 0) =>
         /\ ipInfo' = C8_Record(fetches[i])
         /\ securityLevel' = C3_Level(C8_Record(fetches[i]).isp.v)
         /\ privacyScore' = C2_Expected(env, C8_Record(fetches[i]).isp.v)]_vars

(* A second settlement completes after an earlier one of the same refresh   *)
(* burst (loading is already false), carrying a different record.          *)
C8_Witness ==
  /\ Len(fetches) = 1
  /\ running = 1
  /\ fetches[1].pc = "finally"
  /\ loading = FALSE
  /\ fetches[1].response = respGoogle
  /\ ipInfo = formattedDataOf(respGoogle.body)
  /\ securityLevel = "high"

(* C9: score and level are not written before a fetch has settled, and     *)
(* every write of them happens in the scorer step of a running             *)
(* continuation, after that invocation has stored its record; the step     *)
(* neither reads nor writes the environment record.                        *)
C9_ScorerAfterFetch ==
  /\ [](ipInfo = Null => (privacyScore = 0 /\ securityLevel = "medium"))
  /\ [][(privacyScore' # privacyScore \/ securityLevel' # securityLevel) =>
          /\ running # 0
          /\ running' = running
          /\ fetches[running].pc \in {"calculate", "catchCalculate"}
          /\ ipInfo = (IF fetches[running].pc = "calculate"
                       THEN fetches[running].formattedData
                       ELSE C4_FallbackLiteral)
          /\ ipInfo' = ipInfo
          /\ browserInfo' = browserInfo]_vars

C9_Witness ==
  \E i \in 1..Len(fetches) :
    /\ fetches[i].pc = "finally"
    /\ ~fetches[i].caught
    /\ ipInfo = fetches[i].formattedData
    /\ privacyScore # 0
    /\ securityLevel = "low"

(* C10: the browser family is the first of Chrome, Firefox, Safari, Edge   *)
(* that the user agent contains: Chrome and Safari together give Chrome,   *)
(* Edge needs the absence of the other three, and no match gives family    *)
(* and version "Unknown".                                                  *)
C10_Families == <<sChrome, sFirefox, sSafari, sEdge>>

C10_FirstMatch(ua) ==
  LET hits == {k \in 1..Len(C10_Families) : includes(ua, C10_Families[k])}
  IN IF hits = {} THEN sUnknown
     ELSE C10_Families[CHOOSE k \in hits : \A h \in hits : k <= h]

C10_BrowserFamilyOrder ==
  browserInfo # Null =>
    LET ua == env.userAgent
    IN /\ browserInfo.browser = Str(C10_FirstMatch(ua))
       /\ (includes(ua, sChrome) /\ includes(ua, sSafari))
          => browserInfo.browser = Str(sChrome)
       /\ (browserInfo.browser = Str(sEdge))
          <=> (/\ includes(ua, sEdge)
               /\ ~includes(ua, sChrome)
               /\ ~includes(ua, sFirefox)
               /\ ~includes(ua, sSafari))
       /\ (\A k \in 1..Len(C10_Families) : ~includes(ua, C10_Families[k]))
          => (browserInfo.browser = Str(sUnknown) /\ browserInfo.version = Str(sUnknown))

C10_Witness ==
  /\ browserInfo # Null
  /\ env.userAgent = uaEdgeChromium
  /\ browserInfo.browser = Str(sChrome)
  /\ browserInfo.version.v = <<"6", "4">>
(* C11: the operating system is the first of Windows, Mac, Linux, Android, *)
(* iOS that the user agent contains, reported as Windows, macOS, Linux,    *)
(* Android, iOS, and "Unknown" when none occurs; Linux and Android         *)
(* together give Linux, and Android needs the absence of Windows, Mac and  *)
(* Linux.                                                                  *)
C11_Patterns == <<sWindows, sMac, sLinux, sAndroid, siOS>>
C11_Names == <<sWindows, smacOS, sLinux, sAndroid, siOS>>

C11_FirstMatch(ua) ==
  LET hits == {k \in 1..Len(C11_Patterns) : includes(ua, C11_Patterns[k])}
  IN IF hits = {} THEN sUnknown
     ELSE C11_Names[CHOOSE k \in hits : \A h \in hits : k <= h]

C11_OSOrder ==
  browserInfo # Null =>
    LET ua == env.userAgent
    IN /\ browserInfo.os = Str(C11_FirstMatch(ua))
       /\ (includes(ua, sLinux) /\ includes(ua, sAndroid) /\ ~includes(ua, sWindows)
           /\ ~includes(ua, sMac))
          => browserInfo.os = Str(sLinux)
       /\ (browserInfo.os = Str(sAndroid))
          <=> (/\ includes(ua, sAndroid)
               /\ ~includes(ua, sWindows)
               /\ ~includes(ua, sMac)
               /\ ~includes(ua, sLinux))
       /\ (\A k \in 1..Len(C11_Patterns) : ~includes(ua, C11_Patterns[k]))
          => browserInfo.os = Str(sUnknown)

C11_Witness ==
  /\ browserInfo # Null
  /\ env.userAgent = uaAndroid
  /\ browserInfo.os = Str(sLinux)

(* C12 as stated: all five conditions are independent and cumulative, so a *)
(* provider name with "google" and "residential" loses 5 + 15.             *)
C12_AllDeductions(e, name) ==
  LET l == toLowerCase(name)
  IN (IF e.protocol = protoHttps THEN 0 ELSE 20)
     + (IF e.cookieEnabled THEN 10 ELSE 0)
     + (IF e.geolocation THEN 15 ELSE 0)
     + (IF includes(l, sGoogle) \/ includes(l, sCloudflare) THEN 5 ELSE 0)
     + (IF includes(l, sResidential) THEN 15 ELSE 0)

C12_CumulativeDeductions ==
  \A i \in 1..Len(fetches) :
    fetches[i].pc = "finally" =>
      privacyScore = Max(100 - C12_AllDeductions(env, scoredName(fetches[i])), 0)

(* C12 amended: the three environment conditions are independent and       *)
(* cumulative; the two provider conditions are exclusive, "residential"    *)
(* counting only when neither "google" nor "cloudflare" occurs; the score  *)
(* is 100 minus the sum, floored at 0.                                     *)
C12_ExclusiveDeductions(e, name) ==
  LET l == toLowerCase(name)
      trusted == includes(l, sGoogle) \/ includes(l, sCloudflare)
  IN (IF e.protocol = protoHttps THEN 0 ELSE 20)
     + (IF e.cookieEnabled THEN 10 ELSE 0)
     + (IF e.geolocation THEN 15 ELSE 0)
     + (IF trusted THEN 5 ELSE 0)
     + (IF ~trusted /\ includes(l, sResidential) THEN 15 ELSE 0)

C12_ProviderDeductionsExclusive ==
  \A i \in 1..Len(fetches) :
    fetches[i].pc = "finally" =>
      privacyScore = Max(100 - C12_ExclusiveDeductions(env, scoredName(fetches[i])), 0)

C12_Witness ==
  \E i \in 1..Len(fetches) :
    /\ fetches[i].pc = "finally"
    /\ ~fetches[i].caught
    /\ fetches[i].formattedData.isp = Str(ispGoogleRes)
    /\ env.protocol = protoHttp /\ env.cookieEnabled /\ env.geolocation
    /\ privacyScore = 50
(* C13: whenever loading is false, the network record is present and is    *)
(* either the fallback record or a record mapped field by field from a     *)
(* response, and the environment record is present.                        *)
C13_MappedFrom(r) ==
  /\ r.body.kind \in {"object", "primitive"}
  /\ \A m \in C6_FieldMap :
       LET given == prop(r.body, m[1])
       IN ipInfo[m[2]] = IF C6_Falsy(given) THEN m[3] ELSE given

C13_NoErrorState ==
  loading = FALSE =>
    /\ browserInfo # Null
    /\ ipInfo # Null
    /\ \/ ipInfo = C4_FallbackLiteral
       \/ \E r \in Responses : C13_MappedFrom(r)

C13_Witness ==
  /\ loading = FALSE
  /\ running = 0
  /\ browserInfo # Null
  /\ ipInfo = C4_FallbackLiteral
  /\ privacyScore = C2_Expected(env, sDemoISP)
(* C14: one settlement writes the network record exactly once and the      *)
(* score result exactly once, for every response.                          *)
(* The writes invocation f has performed, read off its position: the try   *)
(* block has called setIpInfo once formattedData exists and control is     *)
(* past line 61; the catch block has called it once control is past        *)
(* line 75.                                                                *)
C14_IpWrites(f) ==
  (IF f.formattedData # Null /\ f.pc \in {"calculate", "catch", "catchCalculate", "finally"}
   THEN 1 ELSE 0)
  + (IF f.caught /\ f.pc \in {"catchCalculate", "finally"} THEN 1 ELSE 0)

C14_ScoreWrites(f) == IF f.pc = "finally" /\ ~f.threw THEN 1 ELSE 0

C14_OneWritePerSettlement ==
  \A i \in 1..Len(fetches) :
    fetches[i].pc = "finally" =>
      (C14_IpWrites(fetches[i]) = 1 /\ C14_ScoreWrites(fetches[i]) = 1)
(* C15: when every issued fetch eventually settles, loading = true is      *)
(* always eventually followed by loading = false, on the success and on    *)
(* the failure path; and loading turns false only in the finally step of   *)
(* a settling fetch, so with no settlement it stays true forever.          *)
C15_LoadingEventuallyClears ==
  /\ (loading = TRUE) ~> (loading = FALSE)
  /\ [][(loading = TRUE /\ loading' = FALSE) =>
          \E i \in 1..Len(fetches) : running = i /\ fetches[i].pc = "finally"]_vars

C15_Witness ==
  /\ loading = FALSE
  /\ running = 0
  /\ fetches = <<>>
  /\ ipInfo = formattedDataOf(respResidential.body)
  /\ securityLevel = "low"
(* C16: the refresh action sets loading and replaces the environment       *)
(* record but leaves network record, score and level as they were; the     *)
(* network record is never cleared and changes only inside a settlement,   *)
(* to a whole record.                                                      *)
C16_IsRefreshStep == browserInfo # Null /\ Len(fetches') = Len(fetches) + 1

C16_RecordFields == {"ip", "country", "region", "city", "isp", "timezone", "lat", "lon"}

C16_RefreshHoldsResults ==
  [][/\ C16_IsRefreshStep =>
          /\ loading' = TRUE
          /\ browserInfo' # Null
          /\ browserInfo'.userAgent = Str(env.userAgent)
          /\ browserInfo'.os = Str(C11_FirstMatch(env.userAgent))
          /\ ipInfo' = ipInfo
          /\ privacyScore' = privacyScore
          /\ securityLevel' = securityLevel
     /\ ipInfo # Null => ipInfo' # Null
     /\ ipInfo' # ipInfo =>
          /\ running # 0
          /\ DOMAIN ipInfo' = C16_RecordFields
          /\ \A k \in C16_RecordFields : ipInfo'[k].t \notin {"undefined", "null"}]_vars

C16_Witness ==
  /\ loading = TRUE
  /\ Len(fetches) = 1
  /\ fetches[1].pc = "fetch"
  /\ ipInfo = formattedDataOf(respGoogle.body)
  /\ privacyScore = C2_Expected(env, ispGoogle)
  /\ securityLevel = "high"

(* C17: whenever a network record is present and no settlement is in the   *)
(* middle of its writes, the level is the classification of the provider   *)
(* name of that record, also after settlements out of request order.       *)
C17_LevelMatchesRecord ==
  (ipInfo # Null /\ running = 0) =>
    /\ ipInfo.isp.t = "string"
    /\ securityLevel = C3_Level(ipInfo.isp.v)

C17_Witness ==
  /\ running = 0
  /\ Len(fetches) = 1
  /\ loading = FALSE
  /\ ipInfo = C4_FallbackLiteral
  /\ securityLevel = "medium"
  /\ privacyScore = C2_Expected(env, sDemoISP)
  /\ fetches[1].pc = "json"
  /\ fetches[1].response = respGoogle

(* C18: with refresh reachable only through the rendered button, a         *)
(* refresh starts only when loading is false and sets it, and at most one  *)
(* fetch is in flight, during which loading is true.                       *)
C18_SingleFlight ==
  /\ [](Len(fetches) <= 1 /\ (Len(fetches) = 1 => loading = TRUE))
  /\ [][C16_IsRefreshStep => (loading = FALSE /\ loading' = TRUE /\ Len(fetches) = 0)]_vars

C18_Witness ==
  /\ ipInfo # Null
  /\ loading = TRUE
  /\ Len(fetches) = 1
  /\ fetches[1].pc = "json"
  /\ privacyScore # 0

(* C19: every score the scorer writes is at least 40 and equals the raw    *)
(* score, so the floor at 0 never acts; the slot holds 0 only before the   *)
(* first settlement has run its scorer.                                    *)
C19_ScoreAtLeast40 ==
  /\ privacyScore >= 40 \/ privacyScore = 0
  /\ privacyScore = 0 =>
       (loading = TRUE /\ \A i \in 1..Len(fetches) : fetches[i].pc # "finally")
  /\ \A i \in 1..Len(fetches) :
       fetches[i].pc = "finally" =>
         /\ privacyScore >= 40
         /\ privacyScore = 100 - C12_ExclusiveDeductions(env, scoredName(fetches[i]))

C19_Witness ==
  \E i \in 1..Len(fetches) :
    /\ fetches[i].pc = "finally"
    /\ fetches[i].response = respResidential
    /\ env.protocol = protoHttp /\ env.cookieEnabled /\ env.geolocation
    /\ privacyScore = 40
====
